---- MODULE Spec2Model ----
(***************************************************************************)
(* Model of the Sales Value Matrix classifier of                           *)
(* src/sales_value_matrix_master.py: process_uploaded_data (boolean-field  *)
(* detection) followed by process_data (normalisation, Value Score,        *)
(* Engagement Level, Quadrant), and of the dashboard around it: the four   *)
(* stores and the callbacks handle_upload, update_visualization,           *)
(* reset_view and reset_application (SpecDashboard).                       *)
(*                                                                         *)
(* Python strings are sequences of one-character strings, so that strip(), *)
(* lower(), substring search and dictionary lookup are computed rather     *)
(* than assumed.  A data-frame cell is a record: [str |-> s] for a string, *)
(* [nan |-> TRUE] for a missing value, [num |-> n] for a number.  A data   *)
(* frame is [columns |-> sequence of names, rows |-> sequence of rows],    *)
(* each row a sequence of cells aligned with columns (pandas stores the    *)
(* data by position; renaming columns leaves the data alone).              *)
(***************************************************************************)
EXTENDS Integers, Sequences, FiniteSets, TLC

VARIABLES
    pc,             \* position in handle_upload's call sequence
    contents,       \* the upload handed to process_uploaded_data
    df,             \* the data frame process_uploaded_data returned, mutated by process_data
    value_columns,  \* the second value process_uploaded_data returned
    max_score,      \* the second value process_data returned
    q_in,           \* quadrant classification alone: (Value Score, max_score, Engagement Level)
    q_out,          \* quadrant classification alone: the label np.select chose
    filename,           \* dashboard: 'upload-data'.filename of the latest upload
    upload_status,      \* dashboard: 'upload-status'.children
    main_content,       \* dashboard: 'main-content'.children, "upload" or "visualization"
    processed_data,     \* dashboard: dcc.Store 'processed-data'
    value_columns_data, \* dashboard: dcc.Store 'value-columns'
    max_value_score,    \* dashboard: dcc.Store 'max-value-score'
    filename_store,     \* dashboard: dcc.Store 'filename-store'
    viz_inputs,         \* dashboard: the filter, view, toggle and click properties
    figure,             \* dashboard: 'main-visualization'.figure
    details_open,       \* dashboard: 'agency-details-collapse'.is_open
    agency_details,     \* dashboard: 'agency-details-landscape'.children
    viz_outcome,        \* dashboard: how the latest update_visualization call ended
    last_parsed         \* history: the latest upload that process_uploaded_data parsed

classifier == <<pc, contents, df, value_columns, max_score>>
point == <<q_in, q_out>>
stores == <<processed_data, value_columns_data, max_value_score, filename_store>>
visualization == <<viz_inputs, figure, details_open, agency_details, viz_outcome>>
dashboard == <<filename, upload_status, main_content, stores, visualization, last_parsed>>

vars == <<classifier, point, dashboard>>

(***************************************************************************)
(* Bounds of the model.                                                    *)
(***************************************************************************)
MaxRecords == 2
MaxScoreBound == 20

(***************************************************************************)
(* Python str operations.                                                  *)
(***************************************************************************)
UpperLetters == <<"A", "B", "C", "D", "E", "F", "G", "H", "I", "J", "K", "L", "M",
                  "N", "O", "P", "Q", "R", "S", "T", "U", "V", "W", "X", "Y", "Z">>
LowerLetters == <<"a", "b", "c", "d", "e", "f", "g", "h", "i", "j", "k", "l", "m",
                  "n", "o", "p", "q", "r", "s", "t", "u", "v", "w", "x", "y", "z">>
Whitespace == {" ", "\t", "\n"}

UpperToLower ==
    [u \in {UpperLetters[i] : i \in 1..Len(UpperLetters)} |->
        LowerLetters[CHOOSE i \in 1..Len(UpperLetters) : UpperLetters[i] = u]]

LowerChar(c) ==
    IF c \in DOMAIN UpperToLower THEN UpperToLower[c] ELSE c

\* str.lower()
Lower(s) == [i \in 1..Len(s) |-> LowerChar(s[i])]

\* str.strip(): drops leading and trailing whitespace, keeps inner whitespace
Strip(s) ==
    LET keep == {i \in 1..Len(s) : s[i] \notin Whitespace}
    IN  IF keep = {} THEN <<>>
        ELSE SubSeq(s, CHOOSE i \in keep : \A j \in keep : i <= j,
                       CHOOSE i \in keep : \A j \in keep : j <= i)

\* sub in s
Contains(sub, s) ==
    \E i \in 1..(Len(s) - Len(sub) + 1) : SubSeq(s, i, i + Len(sub) - 1) = sub

(***************************************************************************)
(* Cells and data frames.                                                  *)
(***************************************************************************)
NaN == [nan |-> TRUE]
Str(s) == [str |-> s]
Num(n) == [num |-> n]
None == [kind |-> "none"]

IsNaN(c) == DOMAIN c = {"nan"}

\* Series.astype(str) on one cell: a missing value becomes the text "nan"
AsStr(c) ==
    IF IsNaN(c) THEN <<"n", "a", "n">> ELSE c.str

\* position of the column named name (the frames of this model have distinct names)
ColIndex(frame, name) ==
    CHOOSE j \in 1..Len(frame.columns) : frame.columns[j] = name

HasColumn(frame, name) ==
    \E j \in 1..Len(frame.columns) : frame.columns[j] = name

\* df[name] = cells: overwrites the column in place, or appends a new one
SetColumn(frame, name, cells) ==
    IF HasColumn(frame, name)
    THEN LET j == ColIndex(frame, name)
         IN  [frame EXCEPT !.rows =
                [i \in 1..Len(frame.rows) |-> [frame.rows[i] EXCEPT ![j] = cells[i]]]]
    ELSE [columns |-> Append(frame.columns, name),
          rows |-> [i \in 1..Len(frame.rows) |-> Append(frame.rows[i], cells[i])]]

\* df[name] as the sequence of its cells
Column(frame, name) ==
    LET j == ColIndex(frame, name)
    IN  [i \in 1..Len(frame.rows) |-> frame.rows[i][j]]

(***************************************************************************)
(* process_uploaded_data: boolean-field detection.                         *)
(***************************************************************************)
BoolVocabulary ==
    { <<"y", "e", "s">>, <<"n", "o">>, <<"y">>, <<"n">>, <<"1">>, <<"0">>,
      <<"t", "r", "u", "e">>, <<"f", "a", "l", "s", "e">> }

\* df[col].dropna().astype(str).str.strip().str.lower().unique()
UniqueVals(frame, col) ==
    { Lower(Strip(AsStr(Column(frame, col)[i]))) :
        i \in {k \in 1..Len(frame.rows) : ~IsNaN(Column(frame, col)[k])} }

\* variant of the test below: any() where the code has all()
IsValueColumnAny(frame, col) ==
    \E val \in UniqueVals(frame, col) : val \in BoolVocabulary

\* all(val in ['yes', 'no', 'y', 'n', '1', '0', 'true', 'false'] for val in unique_vals)
IsValueColumn(frame, col) ==
    \A val \in UniqueVals(frame, col) : val \in BoolVocabulary

\* df.columns = [col.strip() for col in df.columns]
StripColumns(table) ==
    [columns |-> [j \in 1..Len(table.columns) |-> Strip(table.columns[j])],
     rows |-> table.rows]

\* value_columns: the columns that pass, in column order
DetectValueColumns(frame) ==
    LET Pass(col) == IsValueColumn(frame, col)
    IN  SelectSeq(frame.columns, Pass)

(***************************************************************************)
(* process_data: normalisation and Value Score.                            *)
(***************************************************************************)
YesVocabulary ==
    { <<"y", "e", "s">>, <<"y">>, <<"1">>, <<"t", "r", "u", "e">> }

Yes == <<"Y", "e", "s">>
No == <<"N", "o">>

\* variant of the cleaning below: the value is compared as typed, not trimmed and lowercased
CleanRaw(c) == AsStr(c)

\* df[col].astype(str).str.strip().str.lower(), on one cell
Clean(c) == Lower(Strip(AsStr(c)))

\* lambda x: 'Yes' if x in ['yes', 'y', '1', 'true'] else 'No'
Normalize(c) ==
    IF Clean(c) \in YesVocabulary THEN Str(Yes) ELSE Str(No)

\* for col in value_columns: df[col] = ...
RECURSIVE NormalizeColumns(_, _)
NormalizeColumns(frame, cols) ==
    IF cols = <<>> THEN frame
    ELSE NormalizeColumns(
            SetColumn(frame, Head(cols),
                      [i \in 1..Len(frame.rows) |-> Normalize(Column(frame, Head(cols))[i])]),
            Tail(cols))

\* x.map({'Yes': 1, 'No': 0}); any other value maps to NaN, which sum() skips
YesNoMap(c) ==
    IF c = Str(Yes) THEN 1 ELSE 0

\* df[value_columns].apply(...).sum(axis=1), for the row at position i
RECURSIVE RowScore(_, _, _)
RowScore(frame, i, cols) ==
    IF cols = <<>> THEN 0
    ELSE YesNoMap(Column(frame, Head(cols))[i]) + RowScore(frame, i, Tail(cols))

\* variant of the count below: one column short
MaxScoreShort(cols) == Len(cols) - 1

\* max_score = len(value_columns)
MaxScoreOf(cols) == Len(cols)

(***************************************************************************)
(* process_data: Engagement Level.                                         *)
(***************************************************************************)
engagement_map ==
    << << <<"U", "n", "t", "o", "u", "c", "h", "e", "d">>, 0 >>,
       << <<"F", "r", "e", "e", "m", "i", "u", "m">>, 1 >>,
       << <<"D", "a", "-", "d", "i", "r", "e", "c", "t">>, 2 >>,
       << <<"O", "r", "d", "e", "r", "s", " ", "3", "6", "0", " ", "l", "i", "t", "e">>, 3 >>,
       << <<"O", "r", "d", "e", "r", "s", " ", "3", "6", "0", " ", "f", "u", "l", "l">>, 4 >> >>

\* Series.map(engagement_map) on one value: exact key match, NaN when no key matches
MapEngagement(s) ==
    IF \E k \in 1..Len(engagement_map) : engagement_map[k][1] = s
    THEN Num(engagement_map[CHOOSE k \in 1..Len(engagement_map) : engagement_map[k][1] = s][2])
    ELSE NaN

\* .fillna(0)
FillNa(c, n) == IF IsNaN(c) THEN Num(n) ELSE c

\* variant of the level below: the unmatched values are left NaN
StageLevelNoFill(s) == MapEngagement(s)

\* df[stage_col].map(engagement_map).fillna(0), on one cleaned stage value
StageLevel(s) == FillNa(MapEngagement(s), 0)

IsStageName(col) ==
    \/ Contains(<<"s", "t", "a", "g", "e">>, Lower(col))
    \/ Contains(<<"s", "u", "b", "s", "c", "r", "i", "p", "t", "i", "o", "n">>, Lower(col))

\* the for loop with break: the first column whose name matches, None when none does
StageCol(frame) ==
    LET hits == {j \in 1..Len(frame.columns) : IsStageName(frame.columns[j])}
    IN  IF hits = {} THEN None
        ELSE Str(frame.columns[CHOOSE j \in hits : \A k \in hits : j <= k])

(***************************************************************************)
(* process_data: Quadrant classification.                                  *)
(*                                                                         *)
(* value_threshold = max_score * 0.65 is a float.  It is kept here in      *)
(* hundredths, max_score * 65, and a score is compared with it after       *)
(* scaling by 100.  The two agree for every integer score: where           *)
(* 0.65 * max_score is not an integer it lies at least 0.05 from one, far  *)
(* beyond the rounding error of the product, and where it is an integer    *)
(* (max_score a multiple of 20) the double product is that integer         *)
(* exactly (20 * 0.65 == 13.0).  Comparisons with NaN are False.           *)
(***************************************************************************)
ValueThresholdPct == 65
engagement_threshold == 2

value_threshold(m) == m * ValueThresholdPct

ScoreGE(c, t) == ~IsNaN(c) /\ c.num * 100 >= t
ScoreLT(c, t) == ~IsNaN(c) /\ c.num * 100 < t
LevelGE(c, t) == ~IsNaN(c) /\ c.num >= t
LevelLT(c, t) == ~IsNaN(c) /\ c.num < t

StrategicPartners == <<"S", "t", "r", "a", "t", "e", "g", "i", "c", " ", "P", "a", "r", "t", "n", "e", "r", "s">>
GrowthOpportunities == <<"G", "r", "o", "w", "t", "h", " ", "O", "p", "p", "o", "r", "t", "u", "n", "i", "t", "i", "e", "s">>
HighValueProspects == <<"H", "i", "g", "h", " ", "V", "a", "l", "u", "e", " ", "P", "r", "o", "s", "p", "e", "c", "t", "s">>
BasicUsers == <<"B", "a", "s", "i", "c", " ", "U", "s", "e", "r", "s">>
Unclassified == <<"U", "n", "c", "l", "a", "s", "s", "i", "f", "i", "e", "d">>

quadrants == <<StrategicPartners, GrowthOpportunities, HighValueProspects, BasicUsers>>

\* conditions, for one row: score and level are the row's cells
conditions(score, m, level) ==
    << ScoreGE(score, value_threshold(m)) /\ LevelGE(level, engagement_threshold),
       ScoreLT(score, value_threshold(m)) /\ LevelGE(level, engagement_threshold),
       ScoreGE(score, value_threshold(m)) /\ LevelLT(level, engagement_threshold),
       ScoreLT(score, value_threshold(m)) /\ LevelLT(level, engagement_threshold) >>

\* np.select(condlist, choicelist, default): the choice of the first condition that holds
NpSelect(condlist, choicelist, default) ==
    LET hits == {k \in 1..Len(condlist) : condlist[k]}
    IN  IF hits = {} THEN default
        ELSE choicelist[CHOOSE k \in hits : \A j \in hits : k <= j]

\* variant of the classification below: the value axis compared strictly (> for >=)
QuadrantStrict(score, m, level) ==
    NpSelect(<< ~IsNaN(score) /\ score.num * 100 > value_threshold(m)
                    /\ LevelGE(level, engagement_threshold),
                ScoreLT(score, value_threshold(m)) /\ LevelGE(level, engagement_threshold),
                ~IsNaN(score) /\ score.num * 100 > value_threshold(m)
                    /\ LevelLT(level, engagement_threshold),
                ScoreLT(score, value_threshold(m)) /\ LevelLT(level, engagement_threshold) >>,
             quadrants, Unclassified)

\* variant of the classification below: the engagement axis compared strictly (> for >=)
QuadrantLevelStrict(score, m, level) ==
    NpSelect(<< ScoreGE(score, value_threshold(m)) /\ LevelGE(level, engagement_threshold + 1),
                ScoreLT(score, value_threshold(m)) /\ LevelGE(level, engagement_threshold + 1),
                ScoreGE(score, value_threshold(m)) /\ LevelLT(level, engagement_threshold),
                ScoreLT(score, value_threshold(m)) /\ LevelLT(level, engagement_threshold) >>,
             quadrants, Unclassified)

\* variant of the classification below: the second and third choices swapped
QuadrantSwapped(score, m, level) ==
    NpSelect(conditions(score, m, level),
             <<StrategicPartners, HighValueProspects, GrowthOpportunities, BasicUsers>>,
             Unclassified)

\* np.select(conditions, quadrants, default='Unclassified'), for one row
Quadrant(score, m, level) ==
    NpSelect(conditions(score, m, level), quadrants, Unclassified)

(***************************************************************************)
(* process_data as a whole.                                                *)
(***************************************************************************)
ValueScoreName == <<"V", "a", "l", "u", "e", " ", "S", "c", "o", "r", "e">>
EngagementLevelName == <<"E", "n", "g", "a", "g", "e", "m", "e", "n", "t", " ", "L", "e", "v", "e", "l">>
QuadrantName == <<"Q", "u", "a", "d", "r", "a", "n", "t">>
SizeName == <<"S", "i", "z", "e">>

Rows(frame) == 1..Len(frame.rows)

\* lines 62-67: the value columns normalised, then df['Value Score']
WithValueScore(frame, cols) ==
    LET f == NormalizeColumns(frame, cols)
    IN  SetColumn(f, ValueScoreName, [i \in Rows(f) |-> Num(RowScore(f, i, cols))])

\* lines 80-91: the stage column cleaned in place, then df['Engagement Level']
WithEngagementLevel(frame) ==
    LET stage_col == StageCol(frame)
    IN  IF stage_col # None
        THEN LET f == SetColumn(frame, stage_col.str,
                        [i \in Rows(frame) |-> Str(Clean(Column(frame, stage_col.str)[i]))])
             IN  SetColumn(f, EngagementLevelName,
                        [i \in Rows(f) |-> StageLevel(Column(f, stage_col.str)[i].str)])
        ELSE SetColumn(frame, EngagementLevelName, [i \in Rows(frame) |-> Num(0)])

\* lines 94-112: df['Quadrant'] and df['Size']
WithQuadrant(frame, m) ==
    LET f == SetColumn(frame, QuadrantName,
                [i \in Rows(frame) |->
                    Str(Quadrant(Column(frame, ValueScoreName)[i], m,
                                 Column(frame, EngagementLevelName)[i]))])
    IN  SetColumn(f, SizeName,
                [i \in Rows(f) |-> Num(Column(f, ValueScoreName)[i].num * 8 + 20)])

process_data(frame, cols) ==
    WithQuadrant(WithEngagementLevel(WithValueScore(frame, cols)), MaxScoreOf(cols))

(***************************************************************************)
(* The uploads the model draws from.  An upload is absent, unreadable (the *)
(* parser raises) or a parsed table: its header as typed in the file and   *)
(* at most MaxRecords rows, each cell drawn from the values its column may *)
(* hold.                                                                   *)
(***************************************************************************)
FeatureAHeader == <<" ", "F", "e", "a", "t", "u", "r", "e", "A", " ">>
FeatureBHeader == <<"F", "e", "a", "t", "u", "r", "e", "B">>
NotesHeader == <<"N", "o", "t", "e", "s">>
SalesStageHeader == <<"S", "a", "l", "e", "s", " ", "S", "t", "a", "g", "e">>
SubscriptionActiveHeader ==
    <<"S", "u", "b", "s", "c", "r", "i", "p", "t", "i", "o", "n", " ", "A", "c", "t", "i", "v", "e">>

Headers ==
    { <<FeatureAHeader, FeatureBHeader, SalesStageHeader>>,
      <<FeatureBHeader, NotesHeader>>,
      <<NotesHeader>>,
      <<SubscriptionActiveHeader, SalesStageHeader>> }

CellValues(header) ==
    CASE header = FeatureAHeader ->
            { NaN, Str(<<" ", "Y", "E", "S", " ">>), Str(<<"n">>), Str(<<"m", "a", "y", "b", "e">>) }
      [] header = FeatureBHeader ->
            { Str(<<"1">>), Str(<<"F", "a", "l", "s", "e">>) }
      [] header = NotesHeader ->
            { NaN, Str(<<"m", "a", "y", "b", "e">>) }
      [] header = SalesStageHeader ->
            { NaN, Str(<<"D", "A", "-", "D", "I", "R", "E", "C", "T">>),
              Str(<<"O", "r", "d", "e", "r", "s", " ", "3", "6", "0", " ", "f", "u", "l", "l">>),
              Str(<<"u", "n", "k", "n", "o", "w", "n", "-", "s", "t", "a", "g", "e">>) }
      [] header = SubscriptionActiveHeader ->
            { NaN, Str(<<"Y">>), Str(<<"n", "o">>) }

AllCellValues ==
    UNION { CellValues(header) :
              header \in UNION { {h[j] : j \in 1..Len(h)} : h \in Headers } }

RowsOf(h) ==
    { r \in [1..Len(h) -> AllCellValues] : \A j \in 1..Len(h) : r[j] \in CellValues(h[j]) }

Table(h, rows) == [kind |-> "table", columns |-> h, rows |-> rows]

Unreadable == [kind |-> "bad"]

(***************************************************************************)
(* The classifier run on one upload, as handle_upload calls it:            *)
(* process_uploaded_data, then process_data on what it returned.           *)
(***************************************************************************)
NoPoint == [kind |-> "none"]

\* the dashboard's properties while only the classifier or the quadrant function runs
DashboardIdle ==
    /\ filename = None
    /\ upload_status = None
    /\ main_content = None
    /\ processed_data = None
    /\ value_columns_data = None
    /\ max_value_score = None
    /\ filename_store = None
    /\ viz_inputs = None
    /\ figure = None
    /\ details_open = None
    /\ agency_details = None
    /\ viz_outcome = None
    /\ last_parsed = None

Init ==
    /\ pc = "start"
    /\ \/ contents \in {None, Unreadable}
       \/ \E h \in Headers, n \in 0..MaxRecords :
            \E rows \in [1..n -> RowsOf(h)] : contents = Table(h, rows)
    /\ df = None
    /\ value_columns = None
    /\ max_score = None
    /\ q_in = NoPoint
    /\ q_out = None
    /\ DashboardIdle

\* variant of the step below: a table with no record or no value column is an error
ProcessUploadedDataRejecting ==
    /\ pc = "start"
    /\ IF /\ contents.kind = "table"
          /\ contents.rows # <<>>
          /\ DetectValueColumns(StripColumns(contents)) # <<>>
       THEN /\ df' = StripColumns(contents)
            /\ value_columns' = DetectValueColumns(StripColumns(contents))
            /\ pc' = "uploaded"
       ELSE /\ pc' = "error"
            /\ UNCHANGED <<df, value_columns>>
    /\ UNCHANGED <<contents, max_score, q_in, q_out, dashboard>>

\* process_uploaded_data(contents, filename): (None, message) for no contents and for
\* any exception of the parser, (df, value_columns) otherwise
ProcessUploadedData ==
    /\ pc = "start"
    /\ IF contents.kind = "table"
       THEN /\ df' = StripColumns(contents)
            /\ value_columns' = DetectValueColumns(StripColumns(contents))
            /\ pc' = "uploaded"
       ELSE /\ pc' = "error"
            /\ UNCHANGED <<df, value_columns>>
    /\ UNCHANGED <<contents, max_score, q_in, q_out, dashboard>>

\* process_data(df, value_columns): returns (df, max_score), df mutated in place
ProcessData ==
    /\ pc = "uploaded"
    /\ df' = process_data(df, value_columns)
    /\ max_score' = MaxScoreOf(value_columns)
    /\ pc' = "processed"
    /\ UNCHANGED <<contents, value_columns, q_in, q_out, dashboard>>

Next == ProcessUploadedData \/ ProcessData

Spec == Init /\ [][Next]_vars

(***************************************************************************)
(* The quadrant classification alone, on every (Value Score, max_score,    *)
(* Engagement Level) with 0 <= Value Score <= max_score <= MaxScoreBound   *)
(* and the level one of the values of engagement_map.                      *)
(***************************************************************************)
Levels == { engagement_map[k][2] : k \in 1..Len(engagement_map) }

Points ==
    { [score |-> s, max_score |-> m, level |-> l] :
        s \in 0..MaxScoreBound, m \in 0..MaxScoreBound, l \in Levels }

InitQuadrant ==
    /\ pc = "quadrant"
    /\ contents = None
    /\ df = None
    /\ value_columns = None
    /\ max_score = None
    /\ q_in \in { p \in Points : p.score <= p.max_score }
    /\ q_out = None
    /\ DashboardIdle

ClassifyPoint ==
    /\ pc = "quadrant"
    /\ q_out = None
    /\ q_out' = Str(Quadrant(Num(q_in.score), q_in.max_score, Num(q_in.level)))
    /\ UNCHANGED <<pc, contents, df, value_columns, max_score, q_in, dashboard>>

NextQuadrant == ClassifyPoint

SpecQuadrant == InitQuadrant /\ [][NextQuadrant]_vars

(***************************************************************************)
(* The dashboard: the four dcc.Store components, main-content, and the     *)
(* callbacks handle_upload, update_visualization, reset_view and           *)
(* reset_application.  A callback returns one value per Output; no_update  *)
(* leaves the property as it is, and a callback that raises updates none.  *)
(***************************************************************************)
MaxAgencies == 2

no_update == [kind |-> "no_update"]

\* a value held by a property of a component; a property not set yet is None
Data(v) == [data |-> v]

\* a returned value written to a component property
Updated(old, new) == IF new = no_update THEN old ELSE new

AgencyNameHeader == <<"A", "g", "e", "n", "c", "y", " ", "N", "a", "m", "e">>
PhysicianGroupHeader == <<"P", "h", "y", "s", "i", "c", "i", "a", "n", " ", "G", "r", "o", "u", "p">>
SalesStageDefault == <<"S", "a", "l", "e", "s", " ", "S", "t", "a", "g", "e", " ", "(", "S", "u", "b", "s", "c", "r", "i", "p", "t", "i", "o", "n", ")">>
G1 == <<"G", "1">>
G2 == <<"G", "2">>
Digits == <<"1", "2", "3", "4", "5", "6", "7", "8", "9">>

\* the name of the agency of the i-th record of an upload: A1, A2, ...
AgencyOf(i) == <<"A", Digits[i]>>

\* python truthiness of a list property: None and the empty list are falsy
Falsy(v) == v = None \/ v.data = <<>>

\* next((col for col in df.columns if P(col)), default)
FirstColumn(hits, default) ==
    IF hits = <<>> THEN default ELSE Str(hits[1])

IsGroupName(col) == Contains(<<"g", "r", "o", "u", "p">>, Lower(col))
IsAgencyName(col) == Contains(<<"a", "g", "e", "n", "c", "y">>, Lower(col)) /\ Contains(<<"n", "a", "m", "e">>, Lower(col))

\* the headers of the tables the dashboard is given (described with the uploads below)
HFull == <<AgencyNameHeader, PhysicianGroupHeader, FeatureBHeader, SalesStageHeader>>
HNoGroup == <<AgencyNameHeader, FeatureBHeader>>
HNoAgency == <<PhysicianGroupHeader, FeatureBHeader>>
HNoValue == <<AgencyNameHeader, PhysicianGroupHeader, NotesHeader>>

DashHeaders == {HFull, HNoGroup, HNoAgency, HNoValue}

\* the column names a stored frame can have, and the three tests on each, computed once
StoredColumns ==
    UNION { {h[j] : j \in 1..Len(h)} : h \in DashHeaders }
        \cup {ValueScoreName, EngagementLevelName, QuadrantName, SizeName}

ColumnTests ==
    [col \in StoredColumns |->
        [group |-> IsGroupName(col), agency |-> IsAgencyName(col), stage |-> IsStageName(col)]]

IsGroupColumn(col) == ColumnTests[col].group
IsAgencyColumn(col) == ColumnTests[col].agency
IsStageColumn(col) == ColumnTests[col].stage

\* Series.unique(): the distinct cells in order of first appearance
RECURSIVE Unique(_)
Unique(cells) ==
    IF cells = <<>> THEN <<>>
    ELSE LET u == Unique(SubSeq(cells, 1, Len(cells) - 1))
             c == cells[Len(cells)]
         IN  IF \E k \in 1..Len(u) : u[k] = c THEN u ELSE Append(u, c)

\* Series == scalar on one cell: a missing value equals nothing, itself included
EqCell(c, scalar) == ~IsNaN(c) /\ ~IsNaN(scalar) /\ c = scalar

\* Series.isin(selected) on one cell, selected a list of names and nulls (a missing
\* group is offered as an option with value null).  Whether a missing cell is in a
\* list that holds a null depends on how read_json typed the column: null_matches.
IsIn(c, selected, null_matches) ==
    IF IsNaN(c)
    THEN null_matches /\ \E k \in 1..Len(selected.data) : IsNaN(selected.data[k])
    ELSE \E k \in 1..Len(selected.data) : selected.data[k] = c

(***************************************************************************)
(* DataFrame.to_json(orient='split') and pd.read_json(orient='split').     *)
(***************************************************************************)
Null == [null |-> TRUE]

ToJson(frame) ==
    [columns |-> frame.columns,
     data |-> [i \in 1..Len(frame.rows) |->
                [j \in 1..Len(frame.columns) |->
                    IF IsNaN(frame.rows[i][j]) THEN Null ELSE frame.rows[i][j]]]]

\* a JSON null is read back as a missing value; a column of text that holds only
\* nulls and the text "nan" is read back as a column of float NaN
ReadJson(json) ==
    LET n == Len(json.data)
        AllNan(j) == n > 0 /\ \A i \in 1..n : json.data[i][j] \in {Null, Str(<<"n", "a", "n">>)}
    IN  [columns |-> json.columns,
         rows |-> [i \in 1..n |->
                    [j \in 1..Len(json.columns) |->
                        IF json.data[i][j] = Null \/ AllNan(j) THEN NaN ELSE json.data[i][j]]]]

(***************************************************************************)
(* handle_upload.                                                          *)
(***************************************************************************)
UploadSection == [kind |-> "upload"]

\* lines 197-209, 212-317: the layout with the options and initial values of its controls
VisualizationLayout(frame, file) ==
    LET group_col == FirstColumn(SelectSeq(frame.columns, IsGroupColumn), None)
        agency_col == FirstColumn(SelectSeq(frame.columns, IsAgencyColumn), None)
        group_options == IF group_col # None THEN Unique(Column(frame, group_col.str)) ELSE <<>>
        agency_options == IF agency_col # None THEN Unique(Column(frame, agency_col.str)) ELSE <<>>
    IN  [kind |-> "visualization",
         file |-> file,
         group_options |-> group_options,
         group_filter |-> IF group_options # <<>> THEN Data(group_options) ELSE None,
         agency_options |-> agency_options,
         agency_filter |-> None,
         view_mode |-> "quadrant",
         quadrant_toggle |-> <<"show">>]

Alert(color, message) == [kind |-> "alert", color |-> color, message |-> message]

\* process_uploaded_data as a function: the (df, value_columns) pair, df None on failure
process_uploaded_data(c, file) ==
    IF c = None THEN [df |-> None, value_columns |-> "No file uploaded"]
    ELSE IF c.kind = "table"
         THEN [df |-> StripColumns(c), value_columns |-> DetectValueColumns(StripColumns(c))]
         ELSE [df |-> None, value_columns |-> "Error processing file"]

Outputs(status, content, data, cols, score, file) ==
    [upload_status |-> status, main_content |-> content, processed_data |-> data,
     value_columns |-> cols, max_value_score |-> score, filename_store |-> file]

\* variant of handle_upload below: a failed parse also writes filename-store
handle_upload_clearing(c, file) ==
    IF c = None
    THEN Outputs(no_update, no_update, no_update, no_update, no_update, no_update)
    ELSE LET parsed == process_uploaded_data(c, file)
         IN  IF parsed.df = None
             THEN Outputs(Data(Alert("danger", parsed.value_columns)),
                          no_update, no_update, no_update, no_update, Data(file))
             ELSE LET processed_df == process_data(parsed.df, parsed.value_columns)
                      score == MaxScoreOf(parsed.value_columns)
                  IN  Outputs(Data(Alert("success", <<file, Len(processed_df.rows)>>)),
                              Data(VisualizationLayout(processed_df, file)),
                              Data(ToJson(processed_df)), Data(parsed.value_columns),
                              Data(score), Data(file))

handle_upload(c, file) ==
    IF c = None
    THEN Outputs(no_update, no_update, no_update, no_update, no_update, no_update)
    ELSE LET parsed == process_uploaded_data(c, file)
         IN  IF parsed.df = None
             THEN Outputs(Data(Alert("danger", parsed.value_columns)),
                          no_update, no_update, no_update, no_update, no_update)
             ELSE LET processed_df == process_data(parsed.df, parsed.value_columns)
                      score == MaxScoreOf(parsed.value_columns)
                  IN  Outputs(Data(Alert("success", <<file, Len(processed_df.rows)>>)),
                              Data(VisualizationLayout(processed_df, file)),
                              Data(ToJson(processed_df)), Data(parsed.value_columns),
                              Data(score), Data(file))

(***************************************************************************)
(* update_visualization.  The function returns (fig, details_open,         *)
(* agency_details) or raises; the model keeps of a figure what it shows:   *)
(* the traces and their points, the zones and boundary lines, the cells of *)
(* the feature matrix.                                                     *)
(***************************************************************************)
EmptyFigure == [kind |-> "empty"]

Returned(fig, open, details) ==
    [outcome |-> "returned", figure |-> fig, details_open |-> open, agency_details |-> details]

Raised == [outcome |-> "raised"]

\* variant of the test below: only the processed-data store is looked at
NoDataJsonOnly(data_json, cols) == data_json = None

\* line 344: not data_json or not value_columns (the text to_json writes is never empty)
NoData(data_json, cols) == data_json = None \/ Falsy(cols)

\* lines 356-360: df = df[df[col].isin(selected)] if selected and col in df.columns
Filter(frame, col, selected, null_matches) ==
    IF ~Falsy(selected) /\ HasColumn(frame, col)
    THEN LET j == ColIndex(frame, col)
             Keep(row) == IsIn(row[j], selected, null_matches)
         IN  [frame EXCEPT !.rows = SelectSeq(frame.rows, Keep)]
    ELSE frame

\* one bubble of a go.Scatter trace
Bubble(frame, row, agency_col) ==
    [x |-> row[ColIndex(frame, ValueScoreName)],
     y |-> row[ColIndex(frame, EngagementLevelName)],
     size |-> row[ColIndex(frame, SizeName)],
     text |-> row[ColIndex(frame, agency_col)],
     quadrant |-> row[ColIndex(frame, QuadrantName)]]

\* lines 406-428: one trace per group, holding the rows with df[group_col] == group
GroupTrace(frame, group_col, agency_col, group) ==
    LET j == ColIndex(frame, group_col)
        InGroup(row) == EqCell(row[j], group)
        group_df == SelectSeq(frame.rows, InGroup)
    IN  [name |-> group,
         points |-> [i \in 1..Len(group_df) |-> Bubble(frame, group_df[i], agency_col)]]

\* lines 372-522; the else branch of line 429 passes marker a property it does not
\* have, and go.Scatter raises
QuadrantView(frame, agency_col, group_col, score, show_quadrants) ==
    IF ~HasColumn(frame, group_col) THEN Raised
    ELSE LET groups == Unique(Column(frame, group_col))
         IN  IF groups # <<>> /\ ~HasColumn(frame, agency_col) THEN Raised
             ELSE [outcome |-> "returned",
                   figure |->
                     [kind |-> "quadrant",
                      zones |-> (\E k \in 1..Len(show_quadrants) : show_quadrants[k] = "show")
                                    /\ score > 0,
                      boundaries |-> score > 0,
                      value_threshold |-> IF score > 0 THEN value_threshold(score) ELSE None,
                      max_score |-> score,
                      traces |-> [k \in 1..Len(groups) |->
                                    GroupTrace(frame, group_col, agency_col, groups[k])]]]

\* .replace({'Yes': 1, 'No': 0}) on one cell
ReplaceYesNo(c) ==
    IF c = Str(Yes) THEN Num(1) ELSE IF c = Str(No) THEN Num(0) ELSE c

\* lines 525-562: one column of the matrix per row of heat_df; the order sort_values
\* gives the columns is not kept.  What px.imshow does with no column at all is not
\* settled by the source: it returns a figure without cells, or raises.
HeatmapView(frame, agency_col, cols) ==
    IF ~HasColumn(frame, agency_col) THEN {Raised}
    ELSE LET fig == [kind |-> "heatmap",
                     y |-> cols,
                     cells |-> { [x |-> frame.rows[i][ColIndex(frame, agency_col)],
                                  z |-> [k \in 1..Len(cols) |->
                                           ReplaceYesNo(frame.rows[i][ColIndex(frame, cols[k])])]] :
                                 i \in 1..Len(frame.rows) }]
         IN  IF frame.rows = <<>>
             THEN {Raised, [outcome |-> "returned", figure |-> fig]}
             ELSE {[outcome |-> "returned", figure |-> fig]}

CouldNotLoad == Alert("danger", "Could not load agency details")

\* lines 568-646: the details of the first row whose agency is the clicked one; any
\* exception on the way gives the alert
AgencyDetails(frame, agency_col, group_col, stage_col, cols, score, view_mode, click_data) ==
    LET key == IF view_mode = "heatmap" THEN "x" ELSE "text"
    IN  IF key \notin DOMAIN click_data \/ ~HasColumn(frame, agency_col) THEN CouldNotLoad
        ELSE LET j == ColIndex(frame, agency_col)
                 Clicked(row) == EqCell(row[j], click_data[key])
                 hits == SelectSeq(frame.rows, Clicked)
             IN  IF hits = <<>> THEN CouldNotLoad
                 ELSE LET agency_data == hits[1]
                      IN  [kind |-> "details",
                           group |-> IF HasColumn(frame, group_col)
                                     THEN agency_data[ColIndex(frame, group_col)] ELSE None,
                           score |-> IF HasColumn(frame, group_col)
                                     THEN <<agency_data[ColIndex(frame, ValueScoreName)], score>>
                                     ELSE None,
                           stage |-> IF HasColumn(frame, stage_col)
                                     THEN agency_data[ColIndex(frame, stage_col)] ELSE None,
                           quadrant |-> agency_data[ColIndex(frame, QuadrantName)],
                           badges |-> [k \in 1..Len(cols) |->
                                        IF agency_data[ColIndex(frame, cols[k])] = Str(Yes)
                                        THEN "Adopted" ELSE "Not Adopted"]]

\* the frame the figure is drawn from: the stored records read back, then filtered
FilteredFrame(data_json, selected_groups, selected_agencies, null_matches) ==
    LET stored == ReadJson(data_json)
        agency_col == FirstColumn(SelectSeq(stored.columns, IsAgencyColumn), Str(AgencyNameHeader)).str
        group_col == FirstColumn(SelectSeq(stored.columns, IsGroupColumn), Str(PhysicianGroupHeader)).str
    IN  Filter(Filter(stored, group_col, selected_groups, null_matches),
               agency_col, selected_agencies, null_matches)

\* lines 362-648 on the filtered frame: the figure, then the agency details
Visualize(stored, frame, cols, score, view_mode, show_quadrants, click_data) ==
    LET agency_col == FirstColumn(SelectSeq(stored.columns, IsAgencyColumn), Str(AgencyNameHeader)).str
        group_col == FirstColumn(SelectSeq(stored.columns, IsGroupColumn), Str(PhysicianGroupHeader)).str
        stage_col == FirstColumn(SelectSeq(stored.columns, IsStageColumn), Str(SalesStageDefault)).str
        drawn == IF view_mode = "quadrant"
                 THEN {QuadrantView(frame, agency_col, group_col, score, show_quadrants)}
                 ELSE HeatmapView(frame, agency_col, cols)
    IN  { IF d.outcome = "raised" THEN Raised
          ELSE IF click_data = None THEN Returned(d.figure, FALSE, no_update)
          ELSE Returned(d.figure, TRUE,
                        Data(AgencyDetails(frame, agency_col, group_col, stage_col, cols,
                                           score, view_mode, click_data))) : d \in drawn }

\* the ways isin may treat a missing cell: open only if the selection holds a null
NullMatches(selected) ==
    IF ~Falsy(selected) /\ \E k \in 1..Len(selected.data) : IsNaN(selected.data[k])
    THEN BOOLEAN ELSE {FALSE}

\* the set of results the call can have
update_visualization(data_json, value_columns_store, max_score_store, selected_groups, selected_agencies, view_mode, show_quadrants, click_data) ==
    IF NoData(data_json, value_columns_store) THEN {Returned(EmptyFigure, FALSE, no_update)}
    ELSE UNION { Visualize(ReadJson(data_json.data),
                           FilteredFrame(data_json.data, selected_groups, selected_agencies,
                                         null_matches),
                           value_columns_store.data, max_score_store.data,
                           view_mode, show_quadrants, click_data) :
                 null_matches \in NullMatches(selected_groups) }

(***************************************************************************)
(* The uploads the dashboard is given: no contents, a file the parser      *)
(* rejects, or a table of at most MaxAgencies records under one of four    *)
(* headers: agency, group, a Boolean-like field and a stage; the same      *)
(* without the group; without the agency; and one with no Boolean-like     *)
(* field.  A record's group is G1, G2 or missing.  A control changes one   *)
(* at a time, and update_visualization runs on the values they then hold.  *)
(***************************************************************************)
\* the groups the i-th record may have
GroupChoices(h, i) ==
    IF h # HFull THEN {Str(G1)}
    ELSE IF i % 2 = 1 THEN {Str(G1), NaN} ELSE {Str(G2), Str(G1)}

\* the numbers of records a table may have
Sizes(h) == IF h = HFull THEN 0..MaxAgencies ELSE 1..MaxAgencies

DashCell(col, i, g) ==
    CASE col = AgencyNameHeader -> Str(AgencyOf(i))
      [] col = PhysicianGroupHeader -> g
      [] col = FeatureBHeader -> Str(IF i % 2 = 1 THEN <<"1">> ELSE <<"F", "a", "l", "s", "e">>)
      [] col = SalesStageHeader -> Str(<<"D", "A", "-", "D", "I", "R", "E", "C", "T">>)
      [] OTHER -> Str(<<"m", "a", "y", "b", "e">>)

DashTable(h, groups) ==
    Table(h, [i \in 1..Len(groups) |-> [j \in 1..Len(h) |-> DashCell(h[j], i, groups[i])]])

Filenames == {"agencies.csv", "agencies.xlsx"}

\* what the user can put in the controls and click on
GroupSelections == {None, Data(<<>>), Data(<<Str(G1)>>)}
AgencySelections == {None, Data(<<Str(AgencyOf(1))>>)}
ViewModes == {"quadrant", "heatmap"}
QuadrantToggles == {<<>>, <<"show">>}
ClickData ==
    {None,
     [x |-> Num(1), y |-> Num(0), text |-> Str(AgencyOf(1))],
     [x |-> Str(AgencyOf(1)), y |-> Str(FeatureBHeader)]}

InitDashboard ==
    /\ pc = "dashboard"
    /\ contents = None
    /\ df = None
    /\ value_columns = None
    /\ max_score = None
    /\ q_in = NoPoint
    /\ q_out = None
    /\ filename = None
    /\ upload_status = None
    /\ main_content = UploadSection
    /\ processed_data = None
    /\ value_columns_data = None
    /\ max_value_score = None
    /\ filename_store = None
    /\ viz_inputs = None
    /\ figure = None
    /\ details_open = FALSE
    /\ agency_details = None
    /\ viz_outcome = "not called"
    /\ last_parsed = None

\* the values the controls of a layout start with
Controls(layout) ==
    [selected_groups |-> layout.group_filter,
     selected_agencies |-> layout.agency_filter,
     view_mode |-> layout.view_mode,
     show_quadrants |-> layout.quadrant_toggle,
     click_data |-> None]

\* the values of the controls after the user changed at most one of them
Changed(controls) ==
    {controls}
    \cup { [controls EXCEPT !.selected_groups = v] : v \in GroupSelections }
    \cup { [controls EXCEPT !.selected_agencies = v] : v \in AgencySelections }
    \cup { [controls EXCEPT !.view_mode = v] : v \in ViewModes }
    \cup { [controls EXCEPT !.show_quadrants = v] : v \in QuadrantToggles }
    \cup { [controls EXCEPT !.click_data = v] : v \in ClickData }

\* a layout just put in main-content, before update_visualization ran
FreshVisualization(layout) ==
    /\ viz_inputs' = Controls(layout)
    /\ figure' = None
    /\ details_open' = FALSE
    /\ agency_details' = None
    /\ viz_outcome' = "not called"

\* the upload component receives (c, file) and handle_upload runs on it
Upload(c, file) ==
    \E out \in {handle_upload(c, file)} :
        /\ contents' = c
        /\ filename' = file
        /\ upload_status' = Updated(Data(upload_status), out.upload_status).data
        /\ main_content' = Updated(Data(main_content), out.main_content).data
        /\ processed_data' = Updated(processed_data, out.processed_data)
        /\ value_columns_data' = Updated(value_columns_data, out.value_columns)
        /\ max_value_score' = Updated(max_value_score, out.max_value_score)
        /\ filename_store' = Updated(filename_store, out.filename_store)
        /\ last_parsed' = IF c.kind = "table"
                          THEN [contents |-> c, filename |-> file]
                          ELSE last_parsed
        /\ IF out.main_content = no_update
           THEN UNCHANGED visualization
           ELSE FreshVisualization(out.main_content.data)

\* handle_upload fires on the upload component, which is part of the upload section
HandleUpload ==
    /\ pc = "dashboard"
    /\ main_content = UploadSection
    /\ \/ Upload(None, None)
       \/ \E file \in Filenames : Upload(Unreadable, file)
       \/ \E file \in Filenames, h \in DashHeaders :
            \E n \in Sizes(h) :
                \E groups \in [1..n -> {Str(G1), Str(G2), NaN}] :
                    /\ \A i \in 1..n : groups[i] \in GroupChoices(h, i)
                    /\ Upload(DashTable(h, groups), file)
    /\ UNCHANGED <<pc, df, value_columns, max_score, point>>

\* update_visualization fires on the controls of the visualization layout; a call
\* that raises updates none of its outputs
UpdateVisualization ==
    /\ pc = "dashboard"
    /\ main_content # UploadSection
    /\ \E controls \in Changed(viz_inputs) :
        /\ viz_inputs' = controls
        /\ \E result \in update_visualization(processed_data, value_columns_data,
                                              max_value_score, controls.selected_groups,
                                              controls.selected_agencies, controls.view_mode,
                                              controls.show_quadrants, controls.click_data) :
            /\ viz_outcome' = result.outcome
            /\ IF result.outcome = "raised"
               THEN UNCHANGED <<figure, details_open, agency_details>>
               ELSE /\ figure' = result.figure
                    /\ details_open' = result.details_open
                    /\ agency_details' = Updated(Data(agency_details), result.agency_details).data
    /\ UNCHANGED <<classifier, point, filename, upload_status, main_content, stores, last_parsed>>

\* reset_view on a click of reset-btn
ResetView ==
    /\ pc = "dashboard"
    /\ main_content # UploadSection
    /\ figure' = EmptyFigure
    /\ UNCHANGED <<classifier, point, filename, upload_status, main_content, stores,
                   viz_inputs, details_open, agency_details, viz_outcome, last_parsed>>

\* reset_application on a click of reset-app: main-content is the upload section again,
\* with a new upload component and an empty upload-status; the stores are not outputs
ResetApplication ==
    /\ pc = "dashboard"
    /\ main_content # UploadSection
    /\ main_content' = UploadSection
    /\ contents' = None
    /\ filename' = None
    /\ upload_status' = None
    /\ viz_inputs' = None
    /\ figure' = None
    /\ details_open' = FALSE
    /\ agency_details' = None
    /\ viz_outcome' = "not called"
    /\ UNCHANGED <<pc, df, value_columns, max_score, point, stores, last_parsed>>

NextDashboard == HandleUpload \/ UpdateVisualization \/ ResetView \/ ResetApplication

SpecDashboard == InitDashboard /\ [][NextDashboard]_vars

(***************************************************************************)
(* What the claims speak about: the uploaded table as typed (contents) and *)
(* the derived columns of the processed frame (df).                        *)
(***************************************************************************)
Processed == pc = "processed"
Detected == pc \in {"uploaded", "processed"}

\* the raw cell of record i in the field named name (the name with the header's padding removed)
RawCell(i, name) ==
    contents.rows[i][CHOOSE j \in 1..Len(contents.columns) : Strip(contents.columns[j]) = name]

Records == 1..Len(contents.rows)

ValueScoreOf(i) == Column(df, ValueScoreName)[i]
EngagementLevelOf(i) == Column(df, EngagementLevelName)[i]
QuadrantOf(i) == Column(df, QuadrantName)[i]

\* the positions of the input fields whose name contains "stage" or "subscription"
StageFields ==
    { j \in 1..Len(contents.columns) :
        \/ Contains(<<"s", "t", "a", "g", "e">>, Lower(contents.columns[j]))
        \/ Contains(<<"s", "u", "b", "s", "c", "r", "i", "p", "t", "i", "o", "n">>,
                    Lower(contents.columns[j])) }

FirstStageField == CHOOSE j \in StageFields : \A k \in StageFields : j <= k

\* the level the five-entry table gives a raw stage value, matched trimmed and
\* case-insensitively; -1 when the value is missing or matches no entry
TableLevel(c) ==
    LET hits == IF IsNaN(c) THEN {}
                ELSE { k \in 1..Len(engagement_map) :
                         Lower(engagement_map[k][1]) = Lower(Strip(c.str)) }
    IN  IF hits = {} THEN -1 ELSE engagement_map[CHOOSE k \in hits : TRUE][2]

PrimaryLabels == {StrategicPartners, GrowthOpportunities, HighValueProspects, BasicUsers}
FiveLabels == PrimaryLabels \cup {Unclassified}

(***************************************************************************)
(* C1.  Every record's Engagement Level is the level the table gives the   *)
(* value of the first stage field, matched trimmed and case-insensitively  *)
(* ("DA-DIRECT" gives 2, "Orders 360 full" gives 4).  The code lowercases  *)
(* the value and looks it up among the capitalised keys of engagement_map, *)
(* so no value ever matches: this statement is violated.                   *)
(***************************************************************************)
C1_EngagementFromTable ==
    (Processed /\ StageFields # {}) =>
        \A i \in Records :
            LET want == TableLevel(contents.rows[i][FirstStageField])
            IN  want >= 0 => EngagementLevelOf(i) = Num(want)

(***************************************************************************)
(* C2.  When max_score is 0 every record's Quadrant is "Unclassified".     *)
(* The code has no such guard: with max_score 0 the threshold is 0 and     *)
(* every score passes it, so this statement is violated.                   *)
(***************************************************************************)
C2_ZeroMaxScoreUnclassified ==
    (Processed /\ max_score = 0) =>
        \A i \in Records : QuadrantOf(i) = Str(Unclassified)

(***************************************************************************)
(* C3.  A field enters value_columns only if at least one record holds a   *)
(* non-empty value in it.  all() of no values is True in the code, so this *)
(* statement is violated.                                                  *)
(***************************************************************************)
C3_NoVacuousValueColumn ==
    Detected =>
        \A k \in 1..Len(value_columns) :
            \E i \in Records : ~IsNaN(RawCell(i, value_columns[k]))

(***************************************************************************)
(* C4.  After process_data every record's Value Score is a number between  *)
(* 0 and max_score, and max_score is the number of value columns.          *)
(***************************************************************************)
C4_ScoreWithinMaxScore ==
    Processed =>
        /\ max_score = Len(value_columns)
        /\ \A i \in Records :
            /\ DOMAIN ValueScoreOf(i) = {"num"}
            /\ 0 <= ValueScoreOf(i).num
            /\ ValueScoreOf(i).num <= max_score

C4_Witness ==
    /\ Processed
    /\ max_score = 2
    /\ \E i, j \in Records : ValueScoreOf(i) = Num(2) /\ ValueScoreOf(j) = Num(0)

(***************************************************************************)
(* C5.  The Quadrant is one of the five labels; when max_score > 0 exactly *)
(* one of the four conditions holds and the label is one of the four       *)
(* primary labels, never "Unclassified".                                   *)
(***************************************************************************)
C5_QuadrantPartition ==
    q_out # None =>
        /\ q_out.str \in FiveLabels
        /\ q_in.max_score > 0 =>
            /\ Cardinality({ k \in 1..4 :
                    conditions(Num(q_in.score), q_in.max_score, Num(q_in.level))[k] }) = 1
            /\ q_out.str \in PrimaryLabels

C5_Witness ==
    /\ q_out = Str(BasicUsers)
    /\ q_in.max_score > 0
    /\ q_in.level = 1

(***************************************************************************)
(* C6.  For max_score > 0 the Quadrant is the function of (Value Score,    *)
(* max_score, Engagement Level) given by the thresholds 0.65 * max_score   *)
(* and 2: high/high Strategic Partners, low/high Growth Opportunities,     *)
(* high/low High Value Prospects, low/low Basic Users.                     *)
(***************************************************************************)
C6_QuadrantByThresholds ==
    (q_out # None /\ q_in.max_score > 0) =>
        LET high_value == 20 * q_in.score >= 13 * q_in.max_score
            high_level == q_in.level >= 2
        IN  q_out.str = IF high_value
                        THEN (IF high_level THEN StrategicPartners ELSE HighValueProspects)
                        ELSE (IF high_level THEN GrowthOpportunities ELSE BasicUsers)

C6_Witness ==
    /\ q_out = Str(GrowthOpportunities)
    /\ q_in.max_score = 3
    /\ q_in.score = 1
    /\ q_in.level = 2

(***************************************************************************)
(* C7.  A record whose Value Score equals 65% of max_score exactly (13 of  *)
(* 20) is on the high-value side: Strategic Partners or High Value         *)
(* Prospects.                                                              *)
(***************************************************************************)
C7_BoundaryIsHigh ==
    (q_out # None /\ 100 * q_in.score = 65 * q_in.max_score) =>
        q_out.str \in {StrategicPartners, HighValueProspects}

C7_Witness ==
    /\ q_in.score = 13
    /\ q_in.max_score = 20
    /\ q_out = Str(StrategicPartners)

(***************************************************************************)
(* C8.  A field is in value_columns only if every non-empty value it holds *)
(* in any record, trimmed and lowercased, is one of yes, no, y, n, 1, 0,   *)
(* true, false; a field holding "maybe" and "yes" is never in it.          *)
(***************************************************************************)
C8_ValueColumnsWithinVocabulary ==
    Detected =>
        \A k \in 1..Len(value_columns) : \A i \in Records :
            LET c == RawCell(i, value_columns[k])
            IN  ~IsNaN(c) =>
                    Lower(Strip(c.str)) \in
                        { <<"y", "e", "s">>, <<"n", "o">>, <<"y">>, <<"n">>, <<"1">>, <<"0">>,
                          <<"t", "r", "u", "e">>, <<"f", "a", "l", "s", "e">> }

\* FeatureA holds "maybe" and " YES " and is left out, while FeatureB is taken
C8_Witness ==
    /\ Detected
    /\ Len(contents.columns) = 3
    /\ \E i, j \in Records :
        /\ contents.rows[i][1] = Str(<<"m", "a", "y", "b", "e">>)
        /\ contents.rows[j][1] = Str(<<" ", "Y", "E", "S", " ">>)
    /\ \A k \in 1..Len(value_columns) : value_columns[k] # Strip(FeatureAHeader)
    /\ \E k \in 1..Len(value_columns) : value_columns[k] = FeatureBHeader

(***************************************************************************)
(* C9.  Every record's Value Score is the number of value columns whose    *)
(* raw value, trimmed and lowercased, is one of yes, y, 1, true; any other *)
(* raw value, a missing one included, adds nothing; and max_score is the   *)
(* number of value columns.                                                *)
(***************************************************************************)
C9_ScoreCountsYes ==
    Processed =>
        /\ max_score = Len(value_columns)
        /\ \A i \in Records :
            ValueScoreOf(i) =
                Num(Cardinality({ k \in 1..Len(value_columns) :
                    LET c == RawCell(i, value_columns[k])
                    IN  /\ ~IsNaN(c)
                        /\ Lower(Strip(c.str)) \in
                            { <<"y", "e", "s">>, <<"y">>, <<"1">>, <<"t", "r", "u", "e">> } }))

\* one record scores 2 from " YES " and "1", another scores 0 from a missing value and "False"
C9_Witness ==
    /\ Processed
    /\ Len(contents.columns) = 3
    /\ Len(value_columns) = 2
    /\ \E i, j \in Records :
        /\ contents.rows[i][1] = Str(<<" ", "Y", "E", "S", " ">>)
        /\ contents.rows[i][2] = Str(<<"1">>)
        /\ ValueScoreOf(i) = Num(2)
        /\ contents.rows[j][1] = NaN
        /\ contents.rows[j][2] = Str(<<"F", "a", "l", "s", "e">>)
        /\ ValueScoreOf(j) = Num(0)

(***************************************************************************)
(* C10.  Every record's Engagement Level is a number in 0..4; it is 0 for  *)
(* every record when no field name contains "stage" or "subscription", and *)
(* 0 for a record whose stage value is missing or in none of the five      *)
(* table entries ("unknown-stage").                                        *)
(***************************************************************************)
C10_EngagementLevelRange ==
    Processed =>
        \A i \in Records :
            /\ EngagementLevelOf(i) \in { Num(n) : n \in 0..4 }
            /\ StageFields = {} => EngagementLevelOf(i) = Num(0)
            /\ (StageFields # {} /\ TableLevel(contents.rows[i][FirstStageField]) = -1)
                    => EngagementLevelOf(i) = Num(0)

\* a stage field exists, one record holds "unknown-stage", another holds nothing
C10_Witness ==
    /\ Processed
    /\ StageFields # {}
    /\ \E i, j \in Records :
        /\ contents.rows[i][FirstStageField] =
                Str(<<"u", "n", "k", "n", "o", "w", "n", "-", "s", "t", "a", "g", "e">>)
        /\ EngagementLevelOf(i) = Num(0)
        /\ contents.rows[j][FirstStageField] = NaN
        /\ EngagementLevelOf(j) = Num(0)

(***************************************************************************)
(* C11.  In the frame process_data returns, every value column of every    *)
(* record holds "Yes" or "No".  When the first stage-named column is       *)
(* itself a value column, line 88 lowercases it after the normalisation    *)
(* and it holds "yes" or "no": this statement is violated.                 *)
(***************************************************************************)
C11_ValueColumnsHoldYesNo ==
    Processed =>
        \A k \in 1..Len(value_columns) : \A i \in Records :
            Column(df, value_columns[k])[i] \in {Str(Yes), Str(No)}

(***************************************************************************)
(* C12.  process_data returns the same records in the same order and       *)
(* leaves every input field that is not a value column with its raw value. *)
(* Line 88 overwrites the stage column with its trimmed, lowercased text   *)
(* ("DA-DIRECT" becomes "da-direct", a missing value "nan"): this          *)
(* statement is violated.                                                  *)
(***************************************************************************)
C12_OtherFieldsUntouched ==
    Processed =>
        /\ Len(df.rows) = Len(contents.rows)
        /\ \A i \in Records : \A j \in 1..Len(contents.columns) :
            (\A k \in 1..Len(value_columns) : value_columns[k] # Strip(contents.columns[j]))
                => df.rows[i][j] = contents.rows[i][j]

(***************************************************************************)
(* C13, as claimed.  A table with no record or with no value column is     *)
(* never returned augmented (an InvalidDataset error is signalled          *)
(* instead).  The code has no such error: this statement is violated.      *)
(***************************************************************************)
C13_DegenerateNeverAugmented ==
    Processed => (contents.rows # <<>> /\ value_columns # <<>>)

(***************************************************************************)
(* C13, amended.  The caller receives either the explicit failure (None    *)
(* and a message), exactly when the upload is absent or unreadable, or a   *)
(* fully augmented frame: every record of the table, each with the four    *)
(* derived columns, and max_score the number of value columns.  A table    *)
(* with no record or no value column is returned augmented.                *)
(***************************************************************************)
C13_ErrorOrFullyAugmented ==
    /\ pc = "error" => (contents \in {None, Unreadable} /\ df = None /\ value_columns = None)
    /\ pc \in {"uploaded", "processed"} => contents.kind = "table"
    /\ Processed =>
        /\ \A name \in {ValueScoreName, EngagementLevelName, QuadrantName, SizeName} :
                HasColumn(df, name)
        /\ Len(df.rows) = Len(contents.rows)
        /\ \A i \in Records : Len(df.rows[i]) = Len(df.columns)
        /\ max_score = Len(value_columns)

\* a table with records and no value column, returned augmented with max_score 0
C13_Witness ==
    /\ Processed
    /\ contents.rows # <<>>
    /\ value_columns = <<>>
    /\ max_score = 0
    /\ HasColumn(df, QuadrantName)


(***************************************************************************)
(* The dashboard claims.  last_parsed is the history the claims need: the  *)
(* latest upload, with its filename, that process_uploaded_data parsed.    *)
(***************************************************************************)
\* what the four stores hold when derived from one parsed upload
StoresOf(upload) ==
    LET frame == StripColumns(upload.contents)
        cols == DetectValueColumns(frame)
    IN  <<Data(ToJson(process_data(frame, cols))), Data(cols),
          Data(Len(cols)), Data(upload.filename)>>

\* C15: the four stores are all unset, or all derived from the most recent upload
\* that was parsed; and an upload with no contents or one that fails to parse
\* changes none of the four stores nor main-content.
C15_StoresFromLatestParsedUpload ==
    /\ [](IF last_parsed = None
          THEN stores = <<None, None, None, None>>
          ELSE stores = StoresOf(last_parsed))
    /\ [][(main_content = UploadSection /\ contents'.kind # "table")
            => UNCHANGED <<stores, main_content>>]_vars

\* a parsed upload, the application reset, then an upload under another name that
\* the parser rejected: the stores still hold the first upload
C15_Witness ==
    /\ main_content = UploadSection
    /\ contents = Unreadable
    /\ upload_status # None
    /\ last_parsed # None
    /\ filename # last_parsed.filename
    /\ filename_store = Data(last_parsed.filename)
    /\ processed_data # None


\* the processed-data store or the value-columns store is empty
EmptyStore ==
    processed_data = None \/ value_columns_data = None \/ value_columns_data.data = <<>>

Drawn == figure # None /\ figure.kind \in {"quadrant", "heatmap"}

\* C16: whatever the controls hold, update_visualization run while the processed-data
\* store or the value-columns store is empty returns the empty figure, closes the
\* details panel and leaves its content as it was; so no quadrant or heatmap figure
\* is ever drawn of a dataset whose max_score is 0.
C16_NothingDrawnWithoutValueColumns ==
    /\ [][(EmptyStore /\ UpdateVisualization)
            => (figure' = EmptyFigure /\ details_open' = FALSE
                /\ agency_details' = agency_details)]_vars
    /\ [](Drawn => max_value_score.data > 0)

\* a dataset with records and no value column, the heatmap asked for with a click
\* pending: the call returned, the figure is empty and the panel closed
C16_Witness ==
    /\ main_content # UploadSection
    /\ processed_data # None
    /\ value_columns_data = Data(<<>>)
    /\ max_value_score = Data(0)
    /\ viz_outcome = "returned"
    /\ viz_inputs.view_mode = "heatmap"
    /\ viz_inputs.click_data # None
    /\ figure = EmptyFigure
    /\ details_open = FALSE


\* the stored records, and the columns update_visualization filters on
Stored == ReadJson(processed_data.data)
StoredAgencyCol == FirstColumn(SelectSeq(Stored.columns, IsAgencyColumn), Str(AgencyNameHeader)).str
StoredGroupCol == FirstColumn(SelectSeq(Stored.columns, IsGroupColumn), Str(PhysicianGroupHeader)).str

\* the selection restricts nothing when empty or absent or when the column is not there
Selected(row, col, selection) ==
    (~Falsy(selection) /\ HasColumn(Stored, col))
        => \E k \in 1..Len(selection.data) : selection.data[k] = row[ColIndex(Stored, col)]

\* what the figure should show of one stored record
Shown(row) ==
    [agency |-> row[ColIndex(Stored, StoredAgencyCol)],
     score |-> row[ColIndex(Stored, ValueScoreName)],
     level |-> row[ColIndex(Stored, EngagementLevelName)],
     quadrant |-> row[ColIndex(Stored, QuadrantName)]]

\* the records a figure shows: the bubbles of its traces, the columns of its matrix
Displayed ==
    IF figure.kind = "quadrant"
    THEN { [agency |-> figure.traces[k].points[i].text,
            score |-> figure.traces[k].points[i].x,
            level |-> figure.traces[k].points[i].y,
            quadrant |-> figure.traces[k].points[i].quadrant] :
           <<k, i>> \in { <<k, i>> \in (1..Len(figure.traces)) \X (1..MaxAgencies) :
                            i <= Len(figure.traces[k].points) } }
    ELSE { c.x : c \in figure.cells }

\* no null among the selected
NamesOnly(selection) ==
    Falsy(selection) \/ \A k \in 1..Len(selection.data) : ~IsNaN(selection.data[k])

\* C17: when update_visualization has drawn a figure for selections of names, the
\* records it displays are exactly the stored records whose group and agency the
\* selections admit, each with its stored Value Score, Engagement Level and Quadrant,
\* and the quadrant view uses the stored max_score.
C17_DisplayedAreTheSelected ==
    (/\ main_content # UploadSection
     /\ viz_outcome = "returned"
     /\ Drawn
     /\ HasColumn(Stored, StoredAgencyCol)
     /\ NamesOnly(viz_inputs.selected_groups))
        => LET admitted == { i \in 1..Len(Stored.rows) :
                                /\ Selected(Stored.rows[i], StoredGroupCol, viz_inputs.selected_groups)
                                /\ Selected(Stored.rows[i], StoredAgencyCol, viz_inputs.selected_agencies) }
           IN  /\ figure.kind = "quadrant" =>
                    /\ Displayed = { Shown(Stored.rows[i]) : i \in admitted }
                    /\ figure.max_score = max_value_score.data
               /\ figure.kind = "heatmap" =>
                    Displayed = { Shown(Stored.rows[i]).agency : i \in admitted }

====
